---- MODULE Spec2Model ----
(***************************************************************************)
(* Model of the 'setVariable' DAP request of the MQT debugger              *)
(* (python/mqt/debugger/dap/messages/set_variable_dap_message.py).          *)
(*                                                                         *)
(* Python strings are sequences of one-character strings, so that strip(), *)
(* lower(), int(s, 0), float(s), str(int) and repr(float) are computed     *)
(* character by character.  A Python dict is a record whose DOMAIN is the  *)
(* set of keys present.  An exception is a record [class, msg].            *)
(***************************************************************************)
EXTENDS Integers, Sequences, FiniteSets, TLC

\* ------------------------------------------------------------------ bounds

\* Longest raw string enumerated exhaustively over Alphabet by SpecOne.
MaxLen == 3

\* Largest variablesReference a request of Spec carries.
MaxScope == 11

\* ------------------------------------------------------- program constants

\* The scope identifier of the classical registers: "not in (1,)".
ClassicalScope == 1

\* Scope identifiers from here on are mutable too: "< 10".
ScopeThreshold == 10

\* ---------------------------------------------------------------- strings

Whitespace == {" ", "\t", "\n"}

UpperLetters ==
  <<"A","B","C","D","E","F","G","H","I","J","K","L","M",
    "N","O","P","Q","R","S","T","U","V","W","X","Y","Z">>

LowerLetters ==
  <<"a","b","c","d","e","f","g","h","i","j","k","l","m",
    "n","o","p","q","r","s","t","u","v","w","x","y","z">>

DigitChars == <<"0","1","2","3","4","5","6","7","8","9">>

DecDigits == {DigitChars[i] : i \in 1..10}

\* The position of character c in the sequence tab, 0 when absent.
IndexOf(tab, c) ==
  IF \E i \in 1..Len(tab) : tab[i] = c
  THEN CHOOSE i \in 1..Len(tab) : tab[i] = c
  ELSE 0

\* Mutant: lower() is left out, the comparison is case-sensitive.
LowerChar_Identity(c) == c

\* str.lower() on one character.
LowerChar(c) ==
  IF IndexOf(UpperLetters, c) > 0 THEN LowerLetters[IndexOf(UpperLetters, c)] ELSE c

\* str.lower()
Lower(s) == [i \in 1..Len(s) |-> LowerChar(s[i])]

RECURSIVE LStrip(_)
LStrip(s) ==
  IF s # <<>> /\ Head(s) \in Whitespace THEN LStrip(Tail(s)) ELSE s

RECURSIVE RStrip(_)
RStrip(s) ==
  IF s # <<>> /\ s[Len(s)] \in Whitespace THEN RStrip(SubSeq(s, 1, Len(s) - 1)) ELSE s

\* Mutant: only the leading whitespace is removed.
Strip_LeadingOnly(s) == LStrip(s)

\* str.strip(): leading and trailing whitespace removed.
Strip(s) == RStrip(LStrip(s))

\* The value of c as a digit (0..35), 36 when c is no digit: int()'s digit table.
DigitValue(c) ==
  IF IndexOf(DigitChars, c) > 0 THEN IndexOf(DigitChars, c) - 1
  ELSE IF IndexOf(LowerLetters, LowerChar(c)) > 0
       THEN IndexOf(LowerLetters, LowerChar(c)) + 9
       ELSE 36

\* ------------------------------------------------------------ int(s, 0)

\* Digits of the base, single underscores only between two digits, one digit at least.
RECURSIVE DigitRun(_, _, _)
DigitRun(b, base, prev) ==
  IF b = <<>> THEN prev = "d"
  ELSE IF Head(b) = "_" THEN prev = "d" /\ DigitRun(Tail(b), base, "_")
  ELSE DigitValue(Head(b)) < base /\ DigitRun(Tail(b), base, "d")

\* The number a valid digit run denotes.
RECURSIVE DigitRunValue(_, _, _)
DigitRunValue(b, base, acc) ==
  IF b = <<>> THEN acc
  ELSE IF Head(b) = "_" THEN DigitRunValue(Tail(b), base, acc)
  ELSE DigitRunValue(Tail(b), base, acc * base + DigitValue(Head(b)))

\* The base a literal's prefix selects under base 0, 0 when it has no prefix.
PrefixBase(t) ==
  IF Len(t) >= 2 /\ t[1] = "0"
  THEN CASE LowerChar(t[2]) = "x" -> 16
         [] LowerChar(t[2]) = "o" -> 8
         [] LowerChar(t[2]) = "b" -> 2
         [] OTHER -> 0
  ELSE 0

\* Whether a literal starts with a sign, and whether the sign is a minus.
HasSign(s) == s # <<>> /\ s[1] \in {"+", "-"}

IsNegative(s) == s # <<>> /\ s[1] = "-"

\* The literal without its sign.
Unsigned(s) == IF HasSign(s) THEN Tail(s) ELSE s

\* The base of an unsigned literal under base 0.
LiteralBase(t) == IF PrefixBase(t) = 0 THEN 10 ELSE PrefixBase(t)

\* Its digits: what follows the prefix, and the one underscore allowed after it.
LiteralDigits(t) ==
  IF PrefixBase(t) = 0 THEN t
  ELSE IF Len(t) >= 3 /\ t[3] = "_" THEN SubSeq(t, 4, Len(t))
  ELSE SubSeq(t, 3, Len(t))

\* Mutant: a decimal literal may have leading zeros.
LiteralOk_LeadingZeros(t) ==
  /\ LiteralDigits(t) # <<>>
  /\ DigitRun(LiteralDigits(t), LiteralBase(t), "_")

\* A decimal literal with a leading zero must denote zero ("010" is an error).
LiteralOk(t) ==
  /\ LiteralDigits(t) # <<>>
  /\ DigitRun(LiteralDigits(t), LiteralBase(t), "_")
  /\ (PrefixBase(t) = 0 /\ t[1] = "0") => DigitRunValue(t, 10, 0) = 0

LiteralValue(t) == DigitRunValue(LiteralDigits(t), LiteralBase(t), 0)

\* int(cleaned, 0): an optional sign, then a prefixed literal or a decimal one.
ParseInt(s) ==
  IF LiteralOk(Unsigned(s))
  THEN [ok |-> TRUE,
        val |-> IF IsNegative(s) THEN 0 - LiteralValue(Unsigned(s))
                ELSE LiteralValue(Unsigned(s))]
  ELSE [ok |-> FALSE, val |-> 0]

\* str(n) of a natural number.
RECURSIVE NatToStr(_)
NatToStr(n) ==
  IF n < 10 THEN <<DigitChars[n + 1]>>
  ELSE NatToStr(n \div 10) \o <<DigitChars[(n % 10) + 1]>>

\* str(n) of an int: its decimal rendering.
IntToStr(n) == IF n < 0 THEN <<"-">> \o NatToStr(0 - n) ELSE NatToStr(n)

\* ------------------------------------------------------------- float(s)

\* The number of leading decimal digits of s.
RECURSIVE DigitPrefixLen(_)
DigitPrefixLen(s) ==
  IF s # <<>> /\ Head(s) \in DecDigits THEN 1 + DigitPrefixLen(Tail(s)) ELSE 0

\* float() accepts an underscore only between two decimal digits.
UnderscoresGrouped(s) ==
  \A i \in 1..Len(s) :
    s[i] = "_" => /\ i > 1 /\ s[i - 1] \in DecDigits
                  /\ i < Len(s) /\ s[i + 1] \in DecDigits

\* s without its underscores.
RECURSIVE DropUnderscores(_)
DropUnderscores(s) ==
  IF s = <<>> THEN <<>>
  ELSE IF Head(s) = "_" THEN DropUnderscores(Tail(s))
  ELSE <<Head(s)>> \o DropUnderscores(Tail(s))

\* The digit values of a string of decimal digits.
DigitValues(s) == [i \in 1..Len(s) |-> DigitValue(s[i])]

RECURSIVE DropLeadingZeros(_)
DropLeadingZeros(d) ==
  IF d # <<>> /\ Head(d) = 0 THEN DropLeadingZeros(Tail(d)) ELSE d

RECURSIVE DropTrailingZeros(_)
DropTrailingZeros(d) ==
  IF d # <<>> /\ d[Len(d)] = 0 THEN DropTrailingZeros(SubSeq(d, 1, Len(d) - 1)) ELSE d

\* A double as its shortest decimal form: 0.d1d2...dn * 10^decpt, d1 # 0 and
\* dn # 0; zero has no digits.  Exact for literals of at most 15 significant
\* digits in the range of the normal doubles; far beyond that range the value
\* is inf or zero.
FloatValue(neg, digs, point) ==
  LET lead == DropLeadingZeros(digs)
      norm == DropTrailingZeros(lead)
      decpt == point - (Len(digs) - Len(lead))
  IN  IF norm = <<>> \/ decpt <= -323
      THEN [kind |-> "finite", neg |-> neg, digits |-> <<>>, decpt |-> 0]
      ELSE IF decpt > 309
      THEN [kind |-> "inf", neg |-> neg, digits |-> <<>>, decpt |-> 0]
      ELSE [kind |-> "finite", neg |-> neg, digits |-> norm, decpt |-> decpt]

NoFloat == [ok |-> FALSE, val |-> [kind |-> "finite", neg |-> FALSE, digits |-> <<>>, decpt |-> 0]]

\* An exponent: an optional sign and one decimal digit at least.
ExponentOk(e) == Unsigned(e) # <<>> /\ DigitPrefixLen(Unsigned(e)) = Len(Unsigned(e))

ExponentValue(e) ==
  IF IsNegative(e) THEN 0 - DigitRunValue(Unsigned(e), 10, 0)
  ELSE DigitRunValue(Unsigned(e), 10, 0)

\* The integer digits ip and fraction digits fp are read; rest is what follows.
ParseExponent(neg, ip, fp, rest) ==
  IF Len(ip) + Len(fp) = 0 THEN NoFloat
  ELSE IF rest = <<>>
  THEN [ok |-> TRUE, val |-> FloatValue(neg, DigitValues(ip \o fp), Len(ip))]
  ELSE IF LowerChar(rest[1]) = "e" /\ ExponentOk(Tail(rest))
  THEN [ok |-> TRUE,
        val |-> FloatValue(neg, DigitValues(ip \o fp), Len(ip) + ExponentValue(Tail(rest)))]
  ELSE NoFloat

\* The integer digits ip are read; rest may start with the point.
ParseFraction(neg, ip, rest) ==
  IF rest # <<>> /\ rest[1] = "."
  THEN ParseExponent(neg, ip, SubSeq(Tail(rest), 1, DigitPrefixLen(Tail(rest))),
                     SubSeq(Tail(rest), DigitPrefixLen(Tail(rest)) + 1, Len(rest) - 1))
  ELSE ParseExponent(neg, ip, <<>>, rest)

\* The literal after its sign.
ParseMagnitude(neg, u) ==
  IF Lower(u) \in {<<"i","n","f">>, <<"i","n","f","i","n","i","t","y">>}
  THEN [ok |-> TRUE, val |-> [kind |-> "inf", neg |-> neg, digits |-> <<>>, decpt |-> 0]]
  ELSE IF Lower(u) = <<"n","a","n">>
  THEN [ok |-> TRUE, val |-> [kind |-> "nan", neg |-> FALSE, digits |-> <<>>, decpt |-> 0]]
  ELSE ParseFraction(neg, SubSeq(u, 1, DigitPrefixLen(u)),
                     SubSeq(u, DigitPrefixLen(u) + 1, Len(u)))

\* float(cleaned): [sign] inf | infinity | nan, or
\* [sign] (digits [. [digits]] | . digits) [e [sign] digits].
ParseFloat(s) ==
  IF ~UnderscoresGrouped(s) THEN NoFloat
  ELSE ParseMagnitude(IsNegative(s), Unsigned(DropUnderscores(s)))

\* n zeros.
Zeros(n) == [i \in 1..n |-> "0"]

\* The characters of a sequence of digit values.
DigitsToStr(d) == [i \in 1..Len(d) |-> DigitChars[d[i] + 1]]

\* str(x) of a float: repr's shortest form, fixed-point for -4 < decpt <= 16,
\* else d[.ddd]e+XX with an exponent of two digits at least.
FloatToStr(v) ==
  LET sign == IF v.neg THEN <<"-">> ELSE <<>>
      n    == Len(v.digits)
      ds   == DigitsToStr(v.digits)
      e    == v.decpt - 1
      emag == IF e < 0 THEN 0 - e ELSE e
      estr == IF emag < 10 THEN <<"0">> \o NatToStr(emag) ELSE NatToStr(emag)
  IN  IF v.kind = "nan" THEN <<"n","a","n">>
      ELSE IF v.kind = "inf" THEN sign \o <<"i","n","f">>
      ELSE IF n = 0 THEN sign \o <<"0",".","0">>
      ELSE IF v.decpt <= -4 \/ v.decpt > 16
      THEN sign \o <<ds[1]>> \o (IF n > 1 THEN <<".">> \o SubSeq(ds, 2, n) ELSE <<>>)
                \o <<"e">> \o (IF e < 0 THEN <<"-">> ELSE <<"+">>) \o estr
      ELSE IF v.decpt <= 0
      THEN sign \o <<"0",".">> \o Zeros(0 - v.decpt) \o ds
      ELSE IF v.decpt >= n
      THEN sign \o ds \o Zeros(v.decpt - n) \o <<".","0">>
      ELSE sign \o SubSeq(ds, 1, v.decpt) \o <<".">> \o SubSeq(ds, v.decpt + 1, n)

\* ------------------------------------------------------------ exceptions

\* A call that returned value v.
Return(v) == [raised |-> FALSE, value |-> v]

\* A call that raised an exception of class cls whose str() is msg.
Raise(cls, msg) == [raised |-> TRUE, exc |-> [class |-> cls, msg |-> msg]]

\* ------------------------------------------------------ _convert_to_value

VariableTypes == {"VarBool", "VarInt", "VarFloat", "VarOther"}

MsgBool == <<"Boolean variables only accept 'true', 'false', '1', or '0'.">>

MsgInt == <<"Integer variables expect a base-10 or prefixed literal.">>

MsgFloat == <<"Floating-point variables expect a decimal literal.">>

MsgUnsupported == <<"Unsupported variable type.">>

\* The pair (value, display) the converter returns.
Converted(value, display) == Return([value |-> value, display |-> display])

\* Mutant: the Int case assigns the float field.
_convert_to_value_WrongField(raw_value, var_type) ==
  IF var_type = "VarBool"
  THEN IF Lower(Strip(raw_value)) \in {<<"t","r","u","e">>, <<"1">>}
       THEN Converted([bool_value |-> TRUE], <<"T","r","u","e">>)
       ELSE IF Lower(Strip(raw_value)) \in {<<"f","a","l","s","e">>, <<"0">>}
       THEN Converted([bool_value |-> FALSE], <<"F","a","l","s","e">>)
       ELSE Raise("ValueError", MsgBool)
  ELSE IF var_type = "VarInt"
  THEN IF ParseInt(Strip(raw_value)).ok
       THEN Converted([float_value |-> ParseInt(Strip(raw_value)).val],
                      IntToStr(ParseInt(Strip(raw_value)).val))
       ELSE Raise("ValueError", MsgInt)
  ELSE IF var_type = "VarFloat"
  THEN IF ParseFloat(Strip(raw_value)).ok
       THEN Converted([float_value |-> ParseFloat(Strip(raw_value)).val],
                      FloatToStr(ParseFloat(Strip(raw_value)).val))
       ELSE Raise("ValueError", MsgFloat)
  ELSE Raise("ValueError", MsgUnsupported)

\* _convert_to_value(raw_value, var_type): a VariableValue with the one field
\* assigned, and its display string; or a ValueError.
_convert_to_value(raw_value, var_type) ==
  LET cleaned == Strip(raw_value)
  IN  IF var_type = "VarBool"
      THEN LET lowered == Lower(cleaned)
           IN  IF lowered \in {<<"t","r","u","e">>, <<"1">>}
               THEN Converted([bool_value |-> TRUE], <<"T","r","u","e">>)
               ELSE IF lowered \in {<<"f","a","l","s","e">>, <<"0">>}
               THEN Converted([bool_value |-> FALSE], <<"F","a","l","s","e">>)
               ELSE Raise("ValueError", MsgBool)
      ELSE IF var_type = "VarInt"
      THEN LET parsed == ParseInt(cleaned)
           IN  IF parsed.ok
               THEN Converted([int_value |-> parsed.val], IntToStr(parsed.val))
               ELSE Raise("ValueError", MsgInt)
      ELSE IF var_type = "VarFloat"
      THEN LET parsed == ParseFloat(cleaned)
           IN  IF parsed.ok
               THEN Converted([float_value |-> parsed.val], FloatToStr(parsed.val))
               ELSE Raise("ValueError", MsgFloat)
      ELSE Raise("ValueError", MsgUnsupported)

\* --------------------------------------------------- SetVariableDAPMessage

\* __init__: the request's arguments; an absent "value" is the empty string.
SetVariableDAPMessage(arguments) ==
  [variables_reference |-> arguments.variablesReference,
   name  |-> arguments.name,
   value |-> IF "value" \in DOMAIN arguments THEN arguments.value ELSE <<>>]

MsgScope == <<"Setting variables is only supported for classical registers.">>

MsgGrouped ==
  <<"Updating grouped classical registers is not supported yet. ",
    "Expand the register and edit an individual bit.">>

\* Mutant: the threshold itself is rejected ("<=" for "<").
ScopeIsMutable_ThresholdRejected(variables_reference) ==
  ~(variables_reference \notin {ClassicalScope} /\ variables_reference <= ScopeThreshold)

\* The scope test of _resolve_target_name: the references it does not reject.
ScopeIsMutable(variables_reference) ==
  ~(variables_reference \notin {ClassicalScope} /\ variables_reference < ScopeThreshold)

\* "[" in name
HasBracket(name) == \E i \in 1..Len(name) : name[i] = "["

\* Mutant: a whole register passes as a target.
_resolve_target_name_NoGroupCheck(self) ==
  IF ~ScopeIsMutable(self.variables_reference) THEN Raise("ValueError", MsgScope)
  ELSE Return(self.name)

\* _resolve_target_name(self)
_resolve_target_name(self) ==
  IF ~ScopeIsMutable(self.variables_reference) THEN Raise("ValueError", MsgScope)
  ELSE IF ~HasBracket(self.name) THEN Raise("ValueError", MsgGrouped)
  ELSE Return(self.name)

\* f"Unable to update classical variable '{self.name}'."
MsgUnable(name) ==
  <<"Unable to update classical variable '">> \o name \o <<"'.">>

\* --------------------------------------------- the simulation state

\* lookup(name): the variable's descriptor, or an error for an unknown name.
get_classical_variable(st, name) ==
  IF name \in DOMAIN st
  THEN Return(st[name])
  ELSE Raise("RuntimeError", <<"get_classical_variable failed">>)

\* store(name, declared_type, value): the binding replaced, or a generic error
\* (the store refuses writes, or the name or type does not match).
set_classical_variable(st, fails, name, type, value) ==
  IF fails \/ name \notin DOMAIN st \/ st[name].type # type
  THEN Raise("RuntimeError", <<"set_classical_variable failed">>)
  ELSE Return([st EXCEPT ![name].value = value])

\* DAPMessage.handle: the response every request starts from.
DAPMessage_handle(self) == [success |-> TRUE]

\* ----------------------------------------------------------------- handle

\* What one call of handle() leaves behind: the response returned, the store,
\* the calls made in order, and the stage that ended the request.
Handled(response, st, log, outcome) ==
  [escaped |-> FALSE, response |-> response, store |-> st, log |-> log, outcome |-> outcome]

\* Mutant: only ValueError is caught.
Except_ValueErrorOnly(self, response, exc, st, log, stage) ==
  IF exc.class = "ValueError"
  THEN Handled([message |-> exc.msg] @@ [response EXCEPT !.success = FALSE], st, log, stage)
  ELSE [escaped |-> TRUE, store |-> st, log |-> log, outcome |-> stage]

\* Mutant: a RuntimeError's own text is sent to the client.
Except_Verbatim(self, response, exc, st, log, stage) ==
  Handled([message |-> exc.msg] @@ [response EXCEPT !.success = FALSE], st, log, stage)

\* The except clauses of handle(): ValueError, RuntimeError; any other
\* exception leaves handle() without a response.
Except(self, response, exc, st, log, stage) ==
  IF exc.class = "ValueError"
  THEN Handled([message |-> exc.msg] @@ [response EXCEPT !.success = FALSE], st, log, stage)
  ELSE IF exc.class = "RuntimeError"
  THEN Handled([message |-> MsgUnable(self.name)] @@ [response EXCEPT !.success = FALSE],
               st, log, stage)
  ELSE [escaped |-> TRUE, store |-> st, log |-> log, outcome |-> stage]

\* Mutant: the response shows the value read before the write.
AfterConvert_StaleBody(self, st, fails, response, target_name, variable, r3, log) ==
  LET r4 == set_classical_variable(st, fails, target_name, variable.type, r3.value.value)
  IN  IF r4.raised THEN Except(self, response, r4.exc, st, log, "StoreError")
      ELSE Handled([body |-> [value |-> variable.value]] @@ response, r4.value, log, "Success")

\* Line 54-55: the store call, then the response body.
AfterConvert(self, st, fails, response, target_name, variable, r3, log) ==
  LET r4 == set_classical_variable(st, fails, target_name, variable.type, r3.value.value)
  IN  IF r4.raised THEN Except(self, response, r4.exc, st, log, "StoreError")
      ELSE Handled([body |-> [value |-> r3.value.display]] @@ response, r4.value, log, "Success")

\* Line 53: the conversion to the type of the variable found.
AfterGet(self, st, fails, response, target_name, variable, log) ==
  LET r3 == _convert_to_value(self.value, variable.type)
  IN  IF r3.raised
      THEN Except(self, response, r3.exc, st,
                  Append(log, [op |-> "convert", raw |-> self.value,
                               type |-> variable.type, result |-> r3]),
                  "ConversionError")
      ELSE AfterConvert(self, st, fails, response, target_name, variable, r3,
                        log \o <<[op |-> "convert", raw |-> self.value,
                                  type |-> variable.type, result |-> r3],
                                 [op |-> "set", name |-> target_name,
                                  type |-> variable.type, value |-> r3.value.value]>>)

\* Line 52: the lookup of the resolved name.
AfterResolve(self, st, fails, response, target_name, log) ==
  LET r2 == get_classical_variable(st, target_name)
  IN  IF r2.raised
      THEN Except(self, response, r2.exc, st,
                  Append(log, [op |-> "get", name |-> target_name]), "NotFoundError")
      ELSE AfterGet(self, st, fails, response, target_name, r2.value,
                    Append(log, [op |-> "get", name |-> target_name]))

\* Mutant: a validation failure does not stop the request.
handle_NoGate(self, st, fails) ==
  AfterResolve(self, st, fails, DAPMessage_handle(self), self.name, <<[op |-> "resolve"]>>)

\* handle(self, server): the try block, statement by statement; the log lists
\* the calls made, in order.
handle(self, st, fails) ==
  LET r1 == _resolve_target_name(self)
  IN  IF r1.raised
      THEN Except(self, DAPMessage_handle(self), r1.exc, st, <<[op |-> "resolve"]>>,
                  "ValidationError")
      ELSE AfterResolve(self, st, fails, DAPMessage_handle(self), r1.value,
                        <<[op |-> "resolve"]>>)

\* ------------------------------------------------------------------ state

VARIABLES
  store,       \* the simulation state's classical variables: name -> [type, value]
  storeFails,  \* whether the simulation state currently refuses writes
  answered,    \* whether a request has been handled yet
  lastReq,     \* the last request handled
  lastResult,  \* what handling it left behind
  pre,         \* the store and its write mode when that request arrived
  repeated     \* whether that request repeats, at once, the successful one before it

vars == <<store, storeFails, answered, lastReq, lastResult, pre, repeated>>

\* ----------------------------------------------------------------- inputs

NameGroup == <<"c","r","e","g">>

NameBool == <<"c","r","e","g","[","2","]">>

NameInt == <<"n","[","0","]">>

NameFloat == <<"f","[","0","]">>

NameOther == <<"u","[","0","]">>

NameQubit == <<"q","[","0","]">>

\* The names a client sends: a whole register, its bits, and a name the
\* simulation state does not know.
Names == {NameGroup, NameBool, NameInt, NameFloat, NameOther, NameQubit}

FloatZero == [kind |-> "finite", neg |-> FALSE, digits |-> <<>>, decpt |-> 0]

\* The classical variables of the running simulation.
InitialStore ==
  (NameBool  :> [type |-> "VarBool",  value |-> [bool_value |-> FALSE]]) @@
  (NameInt   :> [type |-> "VarInt",   value |-> [int_value |-> 0]]) @@
  (NameFloat :> [type |-> "VarFloat", value |-> [float_value |-> FloatZero]]) @@
  (NameOther :> [type |-> "VarOther", value |-> [bool_value |-> FALSE]])

\* The variablesReference values of a request.
ScopeRefs == (0 - 2)..MaxScope

\* The references a session edits through: the classical registers, a
\* rejected scope, and the threshold.
SessionScopes == {ClassicalScope, ClassicalScope + 1, ScopeThreshold}

\* Raw values clients send.
SampleValues ==
  { <<"t","r","u","e">>,
    <<" "," ","T","R","U","E"," "," ">>,
    <<"F","a","l","s","e">>,
    <<"0">>,
    <<" ","1","\t">>,
    <<"0","x","2","A">>,
    <<"4","2">>,
    <<"0","1","0">>,
    <<"-","0","b","1","_","0","1">>,
    <<"3",".","1","4">>,
    <<"1","e","1","6">>,
    <<"n","a","n">>,
    <<"a","b","c">>,
    <<"y","e","s">> }

SessionValues ==
  { <<"t","r","u","e">>, <<"0">>, <<"0","x","2","A">>, <<"3",".","1","4">>, <<"a","b","c">> }

Alphabet == {" ", "0", "1", "2", "x", "X", "o", "b", "_", "-", ".", "e"}

\* Every string over Alphabet of length n at most.
RECURSIVE StringsUpTo(_)
StringsUpTo(n) ==
  IF n = 0 THEN {<<>>}
  ELSE LET shorter == StringsUpTo(n - 1)
       IN  shorter \cup {Append(s, c) : s \in shorter, c \in Alphabet}

\* The "arguments" objects with and without a "value".
Arguments(refs, names, values) ==
  {[variablesReference |-> r, name |-> n, value |-> v] : r \in refs, n \in names, v \in values}
  \cup {[variablesReference |-> r, name |-> n] : r \in refs, n \in names}

\* ---------------------------------------------------------------- actions

Init ==
  /\ store = InitialStore
  /\ storeFails \in BOOLEAN
  /\ answered = FALSE
  /\ lastReq = SetVariableDAPMessage([variablesReference |-> 0, name |-> <<>>])
  /\ lastResult = Handled([success |-> TRUE], InitialStore, <<>>, "None")
  /\ pre = [store |-> InitialStore, fails |-> FALSE]
  /\ repeated = FALSE

\* The server builds the message from the request and calls handle() on it.
HandleRequest(arguments) ==
  LET self == SetVariableDAPMessage(arguments)
      done == handle(self, store, storeFails)
  IN  /\ pre' = [store |-> store, fails |-> storeFails]
      /\ lastReq' = self
      /\ lastResult' = done
      /\ store' = done.store
      /\ answered' = TRUE
      /\ repeated' = (/\ answered
                      /\ self = lastReq
                      /\ storeFails = pre.fails
                      /\ lastResult.outcome = "Success")
      /\ UNCHANGED storeFails

\* A request of a debugging session.
Receive ==
  \E a \in Arguments(SessionScopes, Names, SessionValues) : HandleRequest(a)

\* The simulation state starts to refuse writes.
StoreBreaks ==
  /\ ~storeFails
  /\ storeFails' = TRUE
  /\ UNCHANGED <<store, answered, lastReq, lastResult, pre, repeated>>

\* The simulation state accepts writes again.
StoreRecovers ==
  /\ storeFails
  /\ storeFails' = FALSE
  /\ UNCHANGED <<store, answered, lastReq, lastResult, pre, repeated>>

Next == Receive \/ StoreBreaks \/ StoreRecovers

Spec == Init /\ [][Next]_vars

\* The first request of a session, on any scope and any name.
ReceiveAnyScope ==
  /\ ~answered
  /\ \E a \in Arguments(ScopeRefs, Names, SampleValues) : HandleRequest(a)

\* The first request of a session, on a classical bit, with any text.
ReceiveAnyText ==
  /\ ~answered
  /\ \E a \in Arguments({ClassicalScope}, DOMAIN InitialStore, StringsUpTo(MaxLen)) :
       HandleRequest(a)

NextOne == ReceiveAnyScope \/ ReceiveAnyText

SpecOne == Init /\ [][NextOne]_vars

\* ================================================================= claims

\* The scopes the specification calls mutable.
MutableScope(ref) == ref = 1 \/ ref >= 10

\* The name has a bracketed index.
ContainsBracket(name) == "[" \in {name[i] : i \in 1..Len(name)}

\* A failure response: success false, a message, no body.
Failure(msg) == [success |-> FALSE, message |-> msg]

\* The positions of the calls of kind op in the last request's log.
Calls(op) == {i \in 1..Len(lastResult.log) : lastResult.log[i].op = op}

\* The last request made the conversion call cv.
Converting(cv) == answered /\ \E i \in Calls("convert") : lastResult.log[i] = cv

\* C1: the scope check passes exactly for scope_reference = 1 or >= 10; a request
\* on any other scope ends in the failure response with the classical-registers
\* message, whatever its name and value.
C1_ScopeGate ==
  answered =>
    LET ref == lastReq.variables_reference
    IN  /\ ScopeIsMutable(ref) <=> MutableScope(ref)
        /\ ~MutableScope(ref) =>
             /\ ~lastResult.escaped
             /\ lastResult.response = Failure(MsgScope)
             /\ lastResult.outcome = "ValidationError"
        /\ MutableScope(ref) =>
             ~(~lastResult.escaped /\ lastResult.response = Failure(MsgScope))

\* C1 witness: scope 2 and target q[0] were rejected as not classical.
C1_Witness ==
  /\ answered
  /\ lastReq.variables_reference = 2
  /\ lastReq.name = NameQubit
  /\ lastResult.response = Failure(MsgScope)

\* C2: on a mutable scope a name without "[" ends in the failure response that
\* tells the client to expand the register; a name with "[" passes validation,
\* which returns it unchanged.
C2_GroupedTarget ==
  (answered /\ MutableScope(lastReq.variables_reference)) =>
    /\ ~ContainsBracket(lastReq.name) =>
         /\ ~lastResult.escaped
         /\ lastResult.response = Failure(MsgGrouped)
         /\ lastResult.outcome = "ValidationError"
    /\ ContainsBracket(lastReq.name) =>
         /\ _resolve_target_name(lastReq) = Return(lastReq.name)
         /\ lastResult.outcome # "ValidationError"
         /\ Len(lastResult.log) >= 2
         /\ lastResult.log[2] = [op |-> "get", name |-> lastReq.name]

\* C2 witness: the whole register creg on scope 10 was rejected.
C2_Witness ==
  /\ answered
  /\ lastReq.variables_reference = 10
  /\ lastReq.name = NameGroup
  /\ lastResult.response = Failure(MsgGrouped)

\* Validation, lookup, conversion and store all succeed for request self.
AllStagesSucceed(self, st, fails) ==
  /\ MutableScope(self.variables_reference)
  /\ ContainsBracket(self.name)
  /\ self.name \in DOMAIN st
  /\ ~_convert_to_value(self.value, st[self.name].type).raised
  /\ ~set_classical_variable(st, fails, self.name, st[self.name].type,
                             _convert_to_value(self.value, st[self.name].type).value.value).raised

\* C3: every request ends in one response and one of the five outcomes; the
\* response is a success carrying the display string exactly when all four
\* stages succeeded, otherwise a failure with a message and no body; no error
\* leaves handle().
C3_OneResponse ==
  answered =>
    /\ ~lastResult.escaped
    /\ lastResult.outcome \in
         {"Success", "ValidationError", "NotFoundError", "ConversionError", "StoreError"}
    /\ lastResult.response.success <=> AllStagesSucceed(lastReq, pre.store, pre.fails)
    /\ lastResult.response.success <=> lastResult.outcome = "Success"
    /\ lastResult.response.success =>
         /\ DOMAIN lastResult.response = {"success", "body"}
         /\ \E i \in Calls("convert") :
              lastResult.response.body = [value |-> lastResult.log[i].result.value.display]
    /\ ~lastResult.response.success =>
         /\ DOMAIN lastResult.response = {"success", "message"}
         /\ lastResult.response.message # <<>>

\* C3 witness: creg[2] set from " 1<tab>" answered with the display string True.
C3_Witness ==
  /\ answered
  /\ lastReq.name = NameBool
  /\ lastReq.value = <<" ","1","\t">>
  /\ lastResult.response = [success |-> TRUE, body |-> [value |-> <<"T","r","u","e">>]]

\* The field of a VariableValue that belongs to a declared type.
VariantOf(type) ==
  CASE type = "VarBool" -> "bool_value"
    [] type = "VarInt" -> "int_value"
    [] type = "VarFloat" -> "float_value"
    [] OTHER -> "none"

\* C4: a value the converter returns has the variant of the declared type and
\* no other; a declared type other than Bool, Int and Float is a conversion
\* error; so the value handed to the store has the variant of the type the
\* lookup returned for the same name.
C4_VariantMatchesType ==
  answered =>
    /\ \A i \in Calls("convert") :
         LET cv == lastResult.log[i]
         IN  /\ ~cv.result.raised =>
                  /\ cv.type \in {"VarBool", "VarInt", "VarFloat"}
                  /\ DOMAIN cv.result.value.value = {VariantOf(cv.type)}
             /\ cv.type \notin {"VarBool", "VarInt", "VarFloat"} =>
                  /\ cv.result.raised
                  /\ cv.result.exc.class = "ValueError"
                  /\ lastResult.outcome = "ConversionError"
    /\ \A i \in Calls("set") :
         LET st == lastResult.log[i]
         IN  /\ st.name = lastReq.name
             /\ st.type = pre.store[st.name].type
             /\ DOMAIN st.value = {VariantOf(st.type)}

\* C4 witness: the Int variable was stored the int variant 42.
C4_Witness ==
  /\ answered
  /\ lastResult.outcome = "Success"
  /\ \E i \in Calls("set") :
       lastResult.log[i] = [op |-> "set", name |-> NameInt, type |-> "VarInt",
                            value |-> [int_value |-> 42]]

\* The first and the last position of s that hold no whitespace (0 when none).
FirstInk(s) ==
  IF \E i \in 1..Len(s) : s[i] \notin {" ", "\t", "\n"}
  THEN CHOOSE i \in 1..Len(s) :
         /\ s[i] \notin {" ", "\t", "\n"}
         /\ \A j \in 1..(i - 1) : s[j] \in {" ", "\t", "\n"}
  ELSE 1

LastInk(s) ==
  IF \E i \in 1..Len(s) : s[i] \notin {" ", "\t", "\n"}
  THEN CHOOSE i \in 1..Len(s) :
         /\ s[i] \notin {" ", "\t", "\n"}
         /\ \A j \in (i + 1)..Len(s) : s[j] \in {" ", "\t", "\n"}
  ELSE 0

\* s with its leading and trailing whitespace removed.
Trimmed(s) == SubSeq(s, FirstInk(s), LastInk(s))

\* s with its ASCII letters in lower case.
Folded(s) ==
  [i \in 1..Len(s) |->
     IF \E k \in 1..26 : UpperLetters[k] = s[i]
     THEN LowerLetters[CHOOSE k \in 1..26 : UpperLetters[k] = s[i]]
     ELSE s[i]]

\* C5: for Bool, a string that is 'true' or '1' once trimmed and lower-cased
\* converts to true with display 'True', one that is 'false' or '0' to false
\* with display 'False', and every other string is the conversion error that
\* names the four accepted tokens.
C5_BoolLiterals ==
  answered =>
    \A i \in Calls("convert") :
      LET cv == lastResult.log[i]
          token == Folded(Trimmed(cv.raw))
      IN  cv.type = "VarBool" =>
            cv.result =
              IF token \in {<<"t","r","u","e">>, <<"1">>}
              THEN Return([value |-> [bool_value |-> TRUE], display |-> <<"T","r","u","e">>])
              ELSE IF token \in {<<"f","a","l","s","e">>, <<"0">>}
              THEN Return([value |-> [bool_value |-> FALSE],
                           display |-> <<"F","a","l","s","e">>])
              ELSE Raise("ValueError",
                         <<"Boolean variables only accept 'true', 'false', '1', or '0'.">>)

\* C5 witness: "  TRUE  " was converted to true for the Bool variable.
C5_Witness ==
  Converting([op |-> "convert", raw |-> <<" "," ","T","R","U","E"," "," ">>,
              type |-> "VarBool",
              result |-> Return([value |-> [bool_value |-> TRUE],
                                 display |-> <<"T","r","u","e">>])])

\* The decimal digits d, without sign or leading zeros, render the integer n.
IsDecimalRendering(d, n) ==
  LET m == IF n < 0 THEN SubSeq(d, 2, Len(d)) ELSE d
  IN  /\ n < 0 => (d # <<>> /\ d[1] = "-")
      /\ m # <<>>
      /\ \A i \in 1..Len(m) : m[i] \in DecDigits
      /\ Len(m) > 1 => m[1] # "0"
      /\ DigitRunValue(m, 10, 0) = (IF n < 0 THEN 0 - n ELSE n)

\* The base a 0x / 0o / 0b prefix (in either case) selects, 0 without a prefix.
ClaimedPrefix(c) ==
  IF Len(c) >= 2 /\ c[1] = "0" /\ c[2] \in {"x", "X"} THEN 16
  ELSE IF Len(c) >= 2 /\ c[1] = "0" /\ c[2] \in {"o", "O"} THEN 8
  ELSE IF Len(c) >= 2 /\ c[1] = "0" /\ c[2] \in {"b", "B"} THEN 2
  ELSE 0

\* One digit of the base at least, and nothing else.
PlainDigits(d, base) == d # <<>> /\ \A i \in 1..Len(d) : DigitValue(d[i]) < base

\* The literals of the claim as written: a prefix and digits of its base, or
\* decimal digits, leading zeros included.
WrittenAccepts(c) ==
  IF ClaimedPrefix(c) # 0 THEN PlainDigits(SubSeq(c, 3, Len(c)), ClaimedPrefix(c))
  ELSE PlainDigits(c, 10)

WrittenValue(c) ==
  IF ClaimedPrefix(c) # 0 THEN DigitRunValue(SubSeq(c, 3, Len(c)), ClaimedPrefix(c), 0)
  ELSE DigitRunValue(c, 10, 0)

\* C6 as written: for Int, a prefixed literal is parsed in base 16 / 8 / 2, a
\* string of digits (leading zeros included, such as '010') in base 10, the
\* display is the decimal rendering, and every other string is the conversion
\* error that names the accepted forms.
C6_AsWritten ==
  answered =>
    \A i \in Calls("convert") :
      LET cv == lastResult.log[i]
          c  == Trimmed(cv.raw)
      IN  cv.type = "VarInt" =>
            IF WrittenAccepts(c)
            THEN /\ ~cv.result.raised
                 /\ cv.result.value.value = [int_value |-> WrittenValue(c)]
                 /\ IsDecimalRendering(cv.result.value.display, WrittenValue(c))
            ELSE cv.result =
                   Raise("ValueError",
                         <<"Integer variables expect a base-10 or prefixed literal.">>)

\* Digits of the base with single underscores between them only.
GroupedDigits(d, base) ==
  /\ d # <<>>
  /\ d[1] # "_"
  /\ d[Len(d)] # "_"
  /\ \A i \in 1..Len(d) :
       IF d[i] = "_" THEN d[i + 1] # "_" ELSE DigitValue(d[i]) < base

\* d without its underscores.
Ungrouped(d) == SelectSeq(d, LAMBDA ch : ch # "_")

\* The literal after its sign.
Magnitude(c) == IF c # <<>> /\ c[1] \in {"+", "-"} THEN SubSeq(c, 2, Len(c)) ELSE c

\* The digits after a prefix; one underscore may separate them from it.
AfterPrefix(u) ==
  IF Len(u) >= 3 /\ u[3] = "_" THEN SubSeq(u, 4, Len(u)) ELSE SubSeq(u, 3, Len(u))

\* The literals of the amended claim: Python's integer literals.
AmendedAccepts(c) ==
  LET u == Magnitude(c)
  IN  IF ClaimedPrefix(u) # 0 THEN GroupedDigits(AfterPrefix(u), ClaimedPrefix(u))
      ELSE /\ GroupedDigits(u, 10)
           /\ u[1] = "0" => \A i \in 1..Len(u) : u[i] \in {"0", "_"}

AmendedValue(c) ==
  LET u == Magnitude(c)
      n == IF ClaimedPrefix(u) # 0
           THEN DigitRunValue(Ungrouped(AfterPrefix(u)), ClaimedPrefix(u), 0)
           ELSE DigitRunValue(Ungrouped(u), 10, 0)
  IN  IF c[1] = "-" THEN 0 - n ELSE n

\* C6 amended: for Int the trimmed string is accepted exactly when it is an
\* optional sign followed by a 0x / 0o / 0b prefix (either case) and digits of
\* base 16 / 8 / 2, or by decimal digits that start with 0 only when the number
\* is zero ('010' is rejected), where single underscores may separate digits;
\* the value is the number so denoted, the display its decimal rendering, and
\* every other string is the conversion error that names the accepted forms.
C6_IntLiterals ==
  answered =>
    \A i \in Calls("convert") :
      LET cv == lastResult.log[i]
          c  == Trimmed(cv.raw)
      IN  cv.type = "VarInt" =>
            IF AmendedAccepts(c)
            THEN /\ ~cv.result.raised
                 /\ cv.result.value.value = [int_value |-> AmendedValue(c)]
                 /\ IsDecimalRendering(cv.result.value.display, AmendedValue(c))
            ELSE cv.result =
                   Raise("ValueError",
                         <<"Integer variables expect a base-10 or prefixed literal.">>)

\* C6 witness: '0x2A' was converted to 42 with display '42'.
C6_Witness ==
  Converting([op |-> "convert", raw |-> <<"0","x","2","A">>, type |-> "VarInt",
              result |-> Return([value |-> [int_value |-> 42], display |-> <<"4","2">>])])

\* C7: when a request that was answered with success is issued again at once,
\* the response is the same success response and the store is left as the
\* first call left it.
C7_Idempotent ==
  [][ ( /\ answered
        /\ lastResult.outcome = "Success"
        /\ lastReq' = lastReq
        /\ pre'.fails = pre.fails )
      => ( /\ ~lastResult'.escaped
           /\ lastResult'.response = lastResult.response
           /\ lastResult'.response.success
           /\ store' = store ) ]_vars

\* C7 witness: the Int variable was set from '0x2A' twice in a row.
C7_Witness ==
  /\ repeated
  /\ lastReq.name = NameInt
  /\ lastReq.value = <<"0","x","2","A">>
  /\ lastResult.response = [success |-> TRUE, body |-> [value |-> <<"4","2">>]]
  /\ store = pre.store

\* C8: when validation, lookup and conversion succeed and the store reports a
\* failure, the response is a failure without body whose message is the fixed
\* text around the name as requested, whatever the raw value.
C8_StoreFailure ==
  answered =>
    /\ ( /\ AllStagesSucceed(lastReq, pre.store, FALSE)
         /\ ~AllStagesSucceed(lastReq, pre.store, pre.fails) )
       <=> lastResult.outcome = "StoreError"
    /\ lastResult.outcome = "StoreError" =>
         /\ ~lastResult.escaped
         /\ lastResult.response =
              Failure(<<"Unable to update classical variable '">> \o lastReq.name \o <<"'.">>)
         /\ "body" \notin DOMAIN lastResult.response

\* C8 witness: the store refused the write of 42 to the Int variable.
C8_Witness ==
  /\ answered
  /\ lastResult.outcome = "StoreError"
  /\ lastReq.name = NameInt
  /\ lastReq.value = <<"4","2">>
  /\ ~lastResult.response.success

\* C9: converting a raw string gives what converting the trimmed string gives,
\* and the request with the trimmed value has the same response and leaves the
\* same store.
C9_WhitespaceInsignificant ==
  answered =>
    LET trimmed == handle([lastReq EXCEPT !.value = Trimmed(lastReq.value)],
                          pre.store, pre.fails)
    IN  /\ \A i \in Calls("convert") :
             lastResult.log[i].result =
               _convert_to_value(Trimmed(lastResult.log[i].raw), lastResult.log[i].type)
        /\ lastResult.escaped = trimmed.escaped
        /\ ~lastResult.escaped => lastResult.response = trimmed.response
        /\ store = trimmed.store

\* C9 witness: the value " 1<tab>" set the Bool variable to true.
C9_Witness ==
  /\ answered
  /\ lastReq.value = <<" ","1","\t">>
  /\ lastReq.name = NameBool
  /\ lastResult.outcome = "Success"
  /\ store[NameBool].value = [bool_value |-> TRUE]

\* The kinds of the calls of the last request, in order.
CallOrder == [i \in 1..Len(lastResult.log) |-> lastResult.log[i].op]

\* C10: the stages run in the order validate, lookup, convert, store, each at
\* most once and only after the stages before it succeeded; the store call
\* uses the name of the lookup and the type it returned; a request that fails
\* in validation, lookup or conversion makes no store call and changes no
\* binding, and a validation failure makes no lookup either.
C10_StageOrder ==
  answered =>
    /\ CallOrder \in {<<"resolve">>, <<"resolve", "get">>, <<"resolve", "get", "convert">>,
                      <<"resolve", "get", "convert", "set">>}
    /\ Calls("get") # {} =>
         /\ MutableScope(lastReq.variables_reference)
         /\ ContainsBracket(lastReq.name)
    /\ Calls("convert") # {} => lastResult.log[2].name \in DOMAIN pre.store
    /\ Calls("set") # {} =>
         /\ ~lastResult.log[3].result.raised
         /\ lastResult.log[4].name = lastResult.log[2].name
         /\ lastResult.log[4].type = pre.store[lastResult.log[2].name].type
         /\ lastResult.log[4].value = lastResult.log[3].result.value.value
    /\ lastResult.outcome = "ValidationError" => CallOrder = <<"resolve">>
    /\ lastResult.outcome \in {"ValidationError", "NotFoundError", "ConversionError"} =>
         /\ Calls("set") = {}
         /\ store = pre.store
    /\ lastResult.outcome = "NotFoundError" => CallOrder = <<"resolve", "get">>
    /\ lastResult.outcome = "ConversionError" => CallOrder = <<"resolve", "get", "convert">>

\* C10 witness: a conversion error after validation and lookup, without a store call.
C10_Witness ==
  /\ answered
  /\ lastResult.outcome = "ConversionError"
  /\ CallOrder = <<"resolve", "get", "convert">>
  /\ store = pre.store

====
